---- MODULE Spec2Model ----
(***************************************************************************)
(* Agent registry (HiveMind) and workflow executor (WorkflowEngine) of     *)
(* claude-flow.  The state is the registry's name->agent map, the engine's *)
(* workflow catalog, the credential in the environment, and the position   *)
(* of every execute() call: which capability calls it has issued, which of *)
(* them have resolved, and what it has collected; further the registry's   *)
(* swarm map and what the caller's last registry call came back with.      *)
(*                                                                         *)
(* JavaScript runs one stretch of code from one await to the next without  *)
(* interruption, so every action below is one such stretch.                *)
(***************************************************************************)
EXTENDS Naturals, Sequences, FiniteSets, TLC

VARIABLES
    agents,      \* HiveMind.agents: function from the registered names to agent records
    workflows,   \* WorkflowEngine.workflows: function from catalog names to definitions
    apiKey,      \* whether process.env.ANTHROPIC_API_KEY is set
    run,         \* per execute() call slot: the call's control state
    swarms,      \* HiveMind.activeSwarms: function from swarm names to swarms
    reply,       \* what the caller's last spawnAgent / createSwarm / get* call came back with
    argv         \* the command line of the claude-flow process, if this is one

vars == <<agents, workflows, apiKey, run, swarms, reply, argv>>

------------------------------------------------------------------------------
(* Bounds of the model *)

\* spawnAgent is called while the registry holds fewer agents than this
MaxSpawned == 2

\* length of the step list of a caller-registered workflow
MaxSteps == 2

\* length of the type list createSwarm is called with
MaxTags == 2

------------------------------------------------------------------------------
(* Values *)

None == "none"              \* an option or field that is not given (undefined)
Undefined == "undefined"    \* reading a property an object does not have

\* the slots for execute() calls
RunIds == DOMAIN run

Modes == {"sparc", "parallel", "sequential", "conditional", "stream"}

AgentTypes == {"architect", "coder", "tester", "analyst", "reviewer"}

\* what the model lets the language-model call answer
Payloads == {"text"}
ApiErrors == {"api_error"}

Absent == [kind |-> "absent"]     \* the key is not in the context object
Null == [kind |-> "null"]         \* the key holds null
GivenStream == [kind |-> "data"]  \* a caller-supplied options.streamData
FalsyStream == [kind |-> "falsy"] \* a caller-supplied options.streamData of 0 or ''

NoError == [kind |-> "none", what |-> None]

Err(kind, what) == [kind |-> kind, what |-> what]

------------------------------------------------------------------------------
(* Agents: src/src/agents/specialized.js and the base class *)

TierOf(type) ==
    CASE type = "architect" -> 1
      [] type = "coder" -> 2
      [] type = "tester" -> 2
      [] type = "analyst" -> 2
      [] type = "reviewer" -> 3

RoleOf(type) ==
    CASE type = "architect" -> "System Architect"
      [] type = "coder" -> "Software Developer"
      [] type = "tester" -> "QA Engineer"
      [] type = "analyst" -> "Data Analyst"
      [] type = "reviewer" -> "Code Reviewer"

\* config.id || uuidv4(), no caller passing an id: a value that tells the new
\* agent from every agent still referred to (live).  Agents of different
\* names differ by name, so the model takes the least number that no live
\* agent of the same name has.
FreshId(live, name) ==
    LET used == {a.id : a \in {x \in live : x.name = name}}
    IN  CHOOSE n \in 1..(Cardinality(used) + 1) :
            n \notin used /\ \A m \in 1..(n - 1) : m \in used

\* Agent constructor: name, role and tier default when the config leaves them
\* out; the client exists only when the credential is set at construction.
AgentCtor(config, key, live) ==
    [id     |-> FreshId(live, IF config.name = None THEN "agent" ELSE config.name),
     name   |-> IF config.name = None THEN "agent" ELSE config.name,
     role   |-> IF config.role = None THEN "generic" ELSE config.role,
     tier   |-> IF config.tier = 0 THEN 1 ELSE config.tier,
     kind   |-> config.kind,
     client |-> key,
     memory |-> 0]           \* this.memory = [], kept as its length

\* variant: a tier in the config wins over the subclass's tier
SpecializedAgentConfigTier(type, config, key, live) ==
    AgentCtor([name |-> IF config.name = None THEN type ELSE config.name,
               role |-> RoleOf(type),
               tier |-> IF config.tier = 0 THEN TierOf(type) ELSE config.tier,
               kind |-> type], key, live)

\* A subclass constructor: super({...config, name: config.name || <type>,
\* role: <role>, tier: <tier>}): the literal keys come after the spread.
SpecializedAgent(type, config, key, live) ==
    AgentCtor([name |-> IF config.name = None THEN type ELSE config.name,
               role |-> RoleOf(type),
               tier |-> TierOf(type),
               kind |-> type], key, live)

NoConfig == [name |-> None, tier |-> 0]

\* the six agents HiveMind.initialize registers, in its order
DefaultAgents ==
    << [type |-> "architect", config |-> NoConfig],
       [type |-> "coder",     config |-> [name |-> "coder-1", tier |-> 0]],
       [type |-> "coder",     config |-> [name |-> "coder-2", tier |-> 0]],
       [type |-> "tester",    config |-> NoConfig],
       [type |-> "analyst",   config |-> NoConfig],
       [type |-> "reviewer",  config |-> NoConfig] >>

DefaultNames ==
    {"architect", "coder-1", "coder-2", "tester", "analyst", "reviewer"}

\* Map.has / Map.set on the name->agent map
Has(ag, name) == name \in DOMAIN ag

Put(ag, a) ==
    [n \in (DOMAIN ag) \cup {a.name} |-> IF n = a.name THEN a ELSE ag[n]]

\* Agent.initialize: fails when the agent has no client
InitializeOk(a) == a.client

\* variant: the agent is inserted whether or not its initialize() succeeded
RegisterAgentAnyway(ag, a) == Put(ag, a)

\* HiveMind.registerAgent: initialize, then insert under the agent's name
RegisterAgent(ag, a) ==
    IF InitializeOk(a) THEN Put(ag, a) ELSE ag

\* no claude-flow command is running: the engine is used as a library, or
\* the command has not been started
NoArgv == [kind |-> "none"]

\* what a registry call comes back with when nothing was called yet
NoReply ==
    [op |-> "none", arg |-> None, before |-> [n \in {} |-> Absent],
     error |-> NoError, value |-> Absent]

\* variant: a type the switch does not know is spawned as a coder
SpawnAgentOnLenient(ag, type, config, key, live) ==
    LET a == SpecializedAgent(IF type \in AgentTypes THEN type ELSE "coder",
                              config, key, live)
    IN  IF InitializeOk(a)
        THEN [agents |-> RegisterAgent(ag, a), error |-> NoError, value |-> a]
        ELSE [agents |-> RegisterAgent(ag, a),
              error |-> Err("AgentInitializationFailure", a.name),
              value |-> Absent]

\* HiveMind.spawnAgent on registry ag: the registry afterwards, the error
\* thrown and the agent returned
SpawnAgentOn(ag, type, config, key, live) ==
    IF type \notin AgentTypes
    THEN [agents |-> ag, error |-> Err("UnknownAgentType", type), value |-> Absent]
    ELSE LET a == SpecializedAgent(type, config, key, live)
         IN  IF InitializeOk(a)
             THEN [agents |-> RegisterAgent(ag, a), error |-> NoError, value |-> a]
             ELSE [agents |-> RegisterAgent(ag, a),
                   error |-> Err("AgentInitializationFailure", a.name),
                   value |-> Absent]

\* `${type}-${name}`
SwarmAgentName(type, name) == type \o "-" \o name

\* HiveMind.createSwarm, the for loop from agentTypes[i] on: members are the
\* agents pushed so far; a spawnAgent that throws ends the call and no swarm
\* is stored
RECURSIVE CreateSwarmFrom(_, _, _, _, _, _, _)

CreateSwarmFrom(ag, name, agentTypes, i, members, key, live) ==
    IF i > Len(agentTypes)
    THEN [agents |-> ag, error |-> NoError,
          value |-> [kind |-> "swarm", name |-> name, agents |-> members,
                     status |-> "active"]]
    ELSE LET out == SpawnAgentOn(ag, agentTypes[i],
                        [name |-> SwarmAgentName(agentTypes[i], name), tier |-> 0],
                        key, live)
         IN  IF out.error # NoError
             THEN [agents |-> out.agents, error |-> out.error, value |-> Absent]
             ELSE CreateSwarmFrom(out.agents, name, agentTypes, i + 1,
                                  Append(members, out.value), key,
                                  live \cup {out.value})

------------------------------------------------------------------------------
(* Execution results and contexts *)

\* Agent.process, try branch: {success: true, result, metadata}
ExecOk(a, text) ==
    [kind |-> "result", success |-> TRUE, result |-> text, error |-> Undefined,
     agent |-> a.name, role |-> a.role]

\* Agent.process, catch branch: {success: false, error, metadata}
ExecFail(a, msg) ==
    [kind |-> "result", success |-> FALSE, result |-> Undefined, error |-> msg,
     agent |-> a.name, role |-> a.role]

\* what one capability call can come back with
Outcomes ==
    {[ok |-> TRUE, val |-> p] : p \in Payloads}
        \cup {[ok |-> FALSE, val |-> e] : e \in ApiErrors}

\* variant: an agent that has a history answers from it
ProcessResultRemembering(a, o) ==
    IF o.ok
    THEN ExecOk(a, IF a.memory > 0 THEN "remembered" ELSE o.val)
    ELSE ExecFail(a, o.val)

\* Agent.process after the language-model call: the Execution Result is made
\* of the response and of this.name and this.role; this.memory is not read
ProcessResult(a, o) == IF o.ok THEN ExecOk(a, o.val) ELSE ExecFail(a, o.val)

\* variant: an agent that answered is registered anew
RememberRegistering(ag, call, o) ==
    IF o.ok /\ call.agent \in DOMAIN ag /\ ag[call.agent].id = call.id
    THEN [ag EXCEPT ![call.agent].memory = @ + 1, ![call.agent].id = @ + 1]
    ELSE ag

\* this.memory.push(...) on the instance the call was made on, which the
\* registry holds under its name unless the name was bound anew since
Remember(ag, call, o) ==
    IF o.ok /\ call.agent \in DOMAIN ag /\ ag[call.agent].id = call.id
    THEN [ag EXCEPT ![call.agent].memory = @ + 1]
    ELSE ag

\* this.memory.length of the instance the call was made on (0 once the
\* registry holds another instance under the name)
MemorySize(ag, call) ==
    IF call.agent \in DOMAIN ag /\ ag[call.agent].id = call.id
    THEN ag[call.agent].memory ELSE 0

\* the context object handed to process: the caller's options.context and the
\* two chaining keys
Ctx(base, prev, stream) ==
    [base |-> base, previousResults |-> prev, streamData |-> stream]

\* a capability call that has been issued: Agent.process up to its await
NewCall(step, a, task, ctx) ==
    [step |-> step, agent |-> a.name, role |-> a.role, id |-> a.id, task |-> task,
     ctx |-> ctx, status |-> "pending", resp |-> Absent]

------------------------------------------------------------------------------
(* Workflow catalog: WorkflowEngine.loadBuiltInWorkflows *)

Step(agent, task) == [agent |-> agent, task |-> task, condition |-> None]

CondStep(cond, agent, task) == [agent |-> agent, task |-> task, condition |-> cond]

Definition(mode, steps) == [mode |-> mode, steps |-> steps]

BuiltInWorkflows ==
    [n \in {"fullstack-dev", "data-analysis", "code-review", "parallel-dev",
            "sequential-test", "conditional-branch", "stream-chain"} |->
        CASE n = "fullstack-dev" ->
                Definition("sparc",
                    << Step("architect", "design_system"),
                       Step("coder-1", "implement_backend"),
                       Step("coder-2", "implement_frontend"),
                       Step("tester", "create_tests"),
                       Step("reviewer", "review_code") >>)
          [] n = "data-analysis" ->
                Definition("sequential",
                    << Step("analyst", "analyze_data"),
                       Step("analyst", "generate_insights"),
                       Step("reviewer", "validate_findings") >>)
          [] n = "code-review" ->
                Definition("sequential",
                    << Step("reviewer", "security_audit"),
                       Step("reviewer", "quality_check"),
                       Step("tester", "test_coverage") >>)
          [] n = "parallel-dev" ->
                Definition("parallel",
                    << Step("coder-1", "feature_a"),
                       Step("coder-2", "feature_b") >>)
          [] n = "sequential-test" ->
                Definition("sequential",
                    << Step("tester", "unit_tests"),
                       Step("tester", "integration_tests"),
                       Step("tester", "e2e_tests") >>)
          [] n = "conditional-branch" ->
                Definition("conditional",
                    << Step("architect", "assess_requirements"),
                       CondStep("simple", "coder-1", "simple_implementation"),
                       CondStep("complex", "architect", "detailed_design") >>)
          [] n = "stream-chain" ->
                Definition("stream",
                    << Step("analyst", "process_stream"),
                       Step("coder", "transform_data"),
                       Step("reviewer", "validate_output") >>)]

\* WorkflowEngine.registerWorkflow: Map.set, no validation
RegisterWorkflowMap(wfs, name, def) ==
    [n \in (DOMAIN wfs) \cup {name} |-> IF n = name THEN def ELSE wfs[n]]

------------------------------------------------------------------------------
(* Inputs the model draws from *)

\* steps a caller-registered workflow is built from: a step that leaves the
\* agent out (step.agent undefined) and a step with an agent and a condition tag
CustomSteps ==
    { Step(None, "job"), CondStep("complex", "tester", "job") }

SeqsUpTo(S, n) == UNION {[1..k -> S] : k \in 1..n}

CustomDefinitions ==
    {Definition("turbo", st) : st \in SeqsUpTo(CustomSteps, MaxSteps)}

CustomNames == {"custom"}

WorkflowNames == (DOMAIN BuiltInWorkflows) \cup CustomNames \cup {"missing"}

\* spawnAgent(type, config) calls
SpawnInputs ==
    {[type |-> t, config |-> NoConfig] : t \in AgentTypes \cup {"manager"}}
        \cup {[type |-> "coder", config |-> [name |-> "coder-1", tier |-> 0]]}
        \cup {[type |-> "reviewer", config |-> [name |-> None, tier |-> 1]]}

\* createSwarm(name, agentTypes) calls: the swarm "1" names its coder coder-1;
\* the type lists are one to MaxTags coders, a coder and a tester, and a coder
\* followed by a type spawnAgent does not know
SwarmNames == {"1"}

SwarmTagLists ==
    SeqsUpTo({"coder"}, MaxTags)
        \cup {<<"coder", "tester">>, <<"coder", "manager">>}

\* the name the agent of a spawnAgent call gets: config.name || <type>
SpawnName(in) == IF in.config.name = None THEN in.type ELSE in.config.name

OptModes == Modes \cup {None, "turbo"}

NoOptions ==
    [mode |-> None, condition |-> None, task |-> None, streamData |-> Absent,
     context |-> None]

\* variant: the declared mode is taken whatever the options say
EffectiveModeDeclared(opts, def) == def.mode

\* the mode execute() will run: options.mode || workflow.mode
EffectiveMode(opts, def) == IF opts.mode # None THEN opts.mode ELSE def.mode

AllOptions ==
    [mode : OptModes, condition : {None, "simple", "complex"},
     task : {None, "build_api"},
     streamData : {Absent, GivenStream, FalsyStream},
     context : {None, "requirements"}]

\* an option is varied in the modes that read it (m is the mode the call
\* will run, None when the workflow is not found)
Varied(o, m) ==
    /\ (m # "conditional" => o.condition = None)
    /\ (m # "sparc" => o.task = None)
    /\ (m # "stream" => o.streamData = Absent)
    /\ (m \notin {"parallel", "sequential", "conditional", "stream"}
            => o.context = None)

\* the options execute(name, options) is called with
OptionsFor(wfs, name) ==
    {o \in AllOptions :
        Varied(o, IF name \in DOMAIN wfs THEN EffectiveMode(o, wfs[name]) ELSE None)}

------------------------------------------------------------------------------
(* One execute() call *)

IdleRun ==
    [pc |-> "idle",          \* idle, init, running, done, failed
     name |-> None,          \* workflowName
     opts |-> NoOptions,     \* options
     def |-> Definition(None, <<>>),   \* the workflow object looked up
     mode |-> None,          \* const mode = options.mode || workflow.mode
     initIdx |-> 0,          \* default agent whose initialize() is awaited
     idx |-> 0,              \* step (or SPARC call) whose process() is awaited
     results |-> <<>>,       \* const results
     previousResult |-> Null,    \* coordinateSequential's previousResult
     streamData |-> Null,        \* executeStreamWorkflow's streamData
     tester |-> FALSE,       \* coordinateSPARC's const tester is an agent
     calls |-> <<>>,         \* capability calls issued, in the order issued
     overtaken |-> FALSE,    \* some call resolved before a call issued earlier
     error |-> NoError]      \* the error execute() threw

\* throw: the call ends with the error
Fail(rn, e) == [rn EXCEPT !.pc = "failed", !.error = e]

\* variant: the coordinator waits on after its last call has come back
FinishWaiting(rn) == [rn EXCEPT !.pc = "running"]

\* return results: execute wraps them into {workflow, mode, results, timestamp}
Finish(rn) == [rn EXCEPT !.pc = "done"]

\* Agent.process throws before its try block when the agent has no client
ProcessThrows(a) == ~a.client

\* await agent.process(task, ctx) for step `step`
Issue(rn, step, a, task, ctx) ==
    IF ProcessThrows(a)
    THEN Fail(rn, Err("AgentNotInitialized", a.name))
    ELSE [rn EXCEPT !.pc = "running", !.idx = step,
                    !.calls = Append(@, NewCall(step, a, task, ctx))]

Pending(rn) == {c \in 1..Len(rn.calls) : rn.calls[c].status = "pending"}

------------------------------------------------------------------------------
(* HiveMind.coordinateSequential, entered through executeSequentialWorkflow *)

SequentialAgentName(step) == IF step.agent = None THEN "coder-1" ELSE step.agent

\* variant: previousResults is taken from the first result of the chain
SequentialContextFirst(rn) ==
    Ctx(rn.opts.context,
        IF rn.results = <<>> THEN Null ELSE rn.results[1], Absent)

\* { ...task.context, previousResults: previousResult }
SequentialContext(rn) == Ctx(rn.opts.context, rn.previousResult, Absent)

\* variant: process() is not awaited, the call of the next step is issued too
CoordinateSequentialEager(rn, ag, i) ==
    IF i > Len(rn.def.steps)
    THEN Finish(rn)
    ELSE LET agentName == SequentialAgentName(rn.def.steps[i])
             first == Issue(rn, i, ag[agentName], rn.def.steps[i].task,
                            SequentialContext(rn))
         IN  IF ~Has(ag, agentName)
             THEN Fail(rn, Err("AgentNotFound", agentName))
             ELSE IF i < Len(rn.def.steps)
                       /\ Has(ag, SequentialAgentName(rn.def.steps[i + 1]))
                  THEN Issue(first, i + 1,
                             ag[SequentialAgentName(rn.def.steps[i + 1])],
                             rn.def.steps[i + 1].task, SequentialContext(rn))
                  ELSE first

\* variant: the chain stops with an error when the previous step reported failure
CoordinateSequentialStopOnError(rn, ag, i) ==
    IF i > Len(rn.def.steps)
    THEN Finish(rn)
    ELSE LET agentName == SequentialAgentName(rn.def.steps[i])
         IN  IF ~Has(ag, agentName)
             THEN Fail(rn, Err("AgentNotFound", agentName))
             ELSE IF rn.previousResult # Null /\ ~rn.previousResult.success
                  THEN Fail(rn, Err("StepFailed", agentName))
                  ELSE Issue(rn, i, ag[agentName], rn.def.steps[i].task,
                             SequentialContext(rn))

RECURSIVE CoordinateSequentialSkip(_, _, _)
\* variant: a step whose agent is not registered is skipped, as in stream mode
CoordinateSequentialSkip(rn, ag, i) ==
    IF i > Len(rn.def.steps)
    THEN Finish(rn)
    ELSE LET agentName == SequentialAgentName(rn.def.steps[i])
         IN  IF ~Has(ag, agentName)
             THEN CoordinateSequentialSkip(rn, ag, i + 1)
             ELSE Issue(rn, i, ag[agentName], rn.def.steps[i].task,
                        SequentialContext(rn))

\* the for loop from step i on, up to the next await
CoordinateSequential(rn, ag, i) ==
    IF i > Len(rn.def.steps)
    THEN Finish(rn)
    ELSE LET agentName == SequentialAgentName(rn.def.steps[i])
         IN  IF ~Has(ag, agentName)
             THEN Fail(rn, Err("AgentNotFound", agentName))
             ELSE Issue(rn, i, ag[agentName], rn.def.steps[i].task,
                        SequentialContext(rn))

\* results.push(result); previousResult = result
SequentialCollect(rn, resp) ==
    [rn EXCEPT !.results = Append(@, resp), !.previousResult = resp]

------------------------------------------------------------------------------
(* HiveMind.coordinateParallel, entered through executeParallelWorkflow *)

\* task.agent || `coder-${(index % 2) + 1}`, index counted from 0
\* variant: every entry without agent goes to the first coder
ParallelAgentNameFirstCoder(step, index) ==
    IF step.agent # None THEN step.agent ELSE "coder-1"

\* task.agent || `coder-${(index % 2) + 1}`, index being the 0-based position
ParallelAgentName(step, index) ==
    IF step.agent # None THEN step.agent
    ELSE IF index % 2 = 0 THEN "coder-1" ELSE "coder-2"

RECURSIVE ParallelCalls(_, _, _)
\* tasks.map(async ...): the calls of the entries whose agent is registered
ParallelCalls(rn, ag, i) ==
    IF i > Len(rn.def.steps) THEN <<>>
    ELSE LET agentName == ParallelAgentName(rn.def.steps[i], i - 1)
         IN  IF Has(ag, agentName) /\ ~ProcessThrows(ag[agentName])
             THEN <<NewCall(i, ag[agentName], rn.def.steps[i].task,
                            Ctx(rn.opts.context, Absent, Absent))>>
                      \o ParallelCalls(rn, ag, i + 1)
             ELSE ParallelCalls(rn, ag, i + 1)

\* the entries whose callback throws `Agent ... not found`
ParallelMissing(rn, ag) ==
    {i \in 1..Len(rn.def.steps) :
        ~Has(ag, ParallelAgentName(rn.def.steps[i], i - 1))}

\* the entries whose promise is rejected: the agent is not found or its
\* process() throws
ParallelRejected(rn, ag) ==
    ParallelMissing(rn, ag) \cup
        {i \in 1..Len(rn.def.steps) :
            /\ Has(ag, ParallelAgentName(rn.def.steps[i], i - 1))
            /\ ProcessThrows(ag[ParallelAgentName(rn.def.steps[i], i - 1)])}

Min(S) == CHOOSE x \in S : \A y \in S : x <= y

\* variant: results are collected in the order the calls come back
ParallelCollectArrival(results, i, resp) ==
    [results EXCEPT ![Min({j \in 1..Len(results) : results[j] = Absent})] = resp]

\* Promise.all keeps one slot per promise and fills slot i when promise i resolves
ParallelCollect(results, i, resp) == [results EXCEPT ![i] = resp]

\* variant: a rejected entry does not reject the join (Promise.allSettled)
CoordinateParallelSettled(rn, ag) ==
    LET started == [rn EXCEPT !.calls = ParallelCalls(rn, ag, 1),
                              !.results = [i \in 1..Len(rn.def.steps) |-> Absent]]
    IN  IF started.calls = <<>>
        THEN Finish(started)
        ELSE [started EXCEPT !.pc = "running"]

\* variant: the entries are started one by one and the first rejected entry
\* keeps the entries after it from starting
CoordinateParallelStopAtRejected(rn, ag) ==
    LET rejected == ParallelRejected(rn, ag)
        first == IF rejected = {} THEN Len(rn.def.steps) + 1 ELSE Min(rejected)
        started == [rn EXCEPT !.calls = SelectSeq(ParallelCalls(rn, ag, 1),
                                                  LAMBDA c : c.step < first),
                              !.results = [i \in 1..Len(rn.def.steps) |-> Absent]]
    IN  IF rejected # {}
        THEN Fail([started EXCEPT !.results = <<>>],
                  Err(IF first \in ParallelMissing(rn, ag)
                      THEN "AgentNotFound" ELSE "AgentNotInitialized",
                      ParallelAgentName(rn.def.steps[first], first - 1)))
        ELSE IF Len(rn.def.steps) = 0
             THEN Finish(started)
             ELSE [started EXCEPT !.pc = "running"]

\* all callbacks run up to their await, then Promise.all is awaited: it
\* rejects with the first rejected promise, else waits for all
CoordinateParallel(rn, ag) ==
    LET started == [rn EXCEPT !.calls = ParallelCalls(rn, ag, 1),
                              !.results = [i \in 1..Len(rn.def.steps) |-> Absent]]
        rejected == ParallelRejected(rn, ag)
        first == IF rejected = {} THEN 0 ELSE Min(rejected)
    IN  IF rejected # {}
        THEN Fail([started EXCEPT !.results = <<>>],
                  Err(IF first \in ParallelMissing(rn, ag)
                      THEN "AgentNotFound" ELSE "AgentNotInitialized",
                      ParallelAgentName(rn.def.steps[first], first - 1)))
        ELSE IF Len(rn.def.steps) = 0
             THEN Finish(started)
             ELSE [started EXCEPT !.pc = "running"]

------------------------------------------------------------------------------
(* WorkflowEngine.executeConditionalWorkflow *)

ConditionOf(opts) == IF opts.condition = None THEN "simple" ELSE opts.condition

\* variant: a step without a condition tag is not run
EligibleTagged(step, opts) == step.condition = ConditionOf(opts)

\* !step.condition || step.condition === condition
Eligible(step, opts) ==
    step.condition = None \/ step.condition = ConditionOf(opts)

RECURSIVE ExecuteConditional(_, _, _)
\* the for loop from step i on, up to the next await
ExecuteConditional(rn, ag, i) ==
    IF i > Len(rn.def.steps)
    THEN Finish(rn)
    ELSE LET step == rn.def.steps[i]
         IN  IF Eligible(step, rn.opts) /\ Has(ag, step.agent)
             THEN Issue(rn, i, ag[step.agent], step.task,
                        Ctx(rn.opts.context, Absent, Absent))
             ELSE ExecuteConditional(rn, ag, i + 1)

------------------------------------------------------------------------------
(* WorkflowEngine.executeStreamWorkflow *)

\* let streamData = options.streamData || null
InitialStream(opts) ==
    IF opts.streamData \in {Absent, FalsyStream} THEN Null ELSE opts.streamData

\* { ...options.context, streamData }
StreamContext(rn) == Ctx(rn.opts.context, Absent, rn.streamData)

RECURSIVE ExecuteStream(_, _, _)
\* variant: a step whose agent is not registered throws, as in sequential mode
ExecuteStreamStrict(rn, ag, i) ==
    IF i > Len(rn.def.steps)
    THEN Finish(rn)
    ELSE LET step == rn.def.steps[i]
         IN  IF Has(ag, step.agent)
             THEN Issue(rn, i, ag[step.agent], step.task, StreamContext(rn))
             ELSE Fail(rn, Err("AgentNotFound", step.agent))

\* the for loop from step i on, up to the next await
ExecuteStream(rn, ag, i) ==
    IF i > Len(rn.def.steps)
    THEN Finish(rn)
    ELSE LET step == rn.def.steps[i]
         IN  IF Has(ag, step.agent)
             THEN Issue(rn, i, ag[step.agent], step.task, StreamContext(rn))
             ELSE ExecuteStream(rn, ag, i + 1)

\* results.push(result); streamData = result
StreamCollect(rn, resp) ==
    [rn EXCEPT !.results = Append(@, resp), !.streamData = resp]

------------------------------------------------------------------------------
(* HiveMind.coordinateSPARC, entered through executeSPARCWorkflow *)

\* the keys of the results object, in the order they are assigned
SparcKeys ==
    <<"specification", "pseudocode", "architecture", "implementation", "tests",
      "review">>

\* variant: the architect, not the reviewer, makes the final review
SparcAgentsArchitectReviews ==
    <<"architect", "coder-1", "architect", "coder-1", "tester", "architect">>

\* the registry name behind architect, coder, architect, coder, tester, reviewer
SparcAgents ==
    <<"architect", "coder-1", "architect", "coder-1", "tester", "reviewer">>

\* options.task || 'Execute workflow tasks', put into the specification prompt
SparcTask(k, opts) ==
    CASE k = 1 -> IF opts.task = None
                  THEN "Create detailed specification for: Execute workflow tasks"
                  ELSE "Create detailed specification for: build_api"
      [] k = 2 -> "Create pseudocode implementation"
      [] k = 3 -> "Design system architecture"
      [] k = 4 -> "Implement refined solution"
      [] k = 5 -> "Create test suite"
      [] k = 6 -> "Final review and validation"

\* variant: the tester gets the architecture, as the coder does
SparcContextFromArchitecture(k, results) ==
    CASE k = 1 -> Ctx(None, Absent, Absent)
      [] k = 2 -> Ctx(None, [kind |-> "map",
                             specification |-> results[1].result], Absent)
      [] k = 3 -> Ctx(None, [kind |-> "map",
                             specification |-> results[1].result,
                             pseudocode |-> results[2].result], Absent)
      [] k \in {4, 5} -> Ctx(None, [kind |-> "map",
                                    architecture |-> results[3].result], Absent)
      [] k = 6 -> Ctx(None, [kind |-> "map",
                             implementation |-> results[4].result,
                             tests |-> results[5].result], Absent)

\* the context of call k: previousResults holds the .result of earlier phases
\* (undefined when that phase came back with success: false)
SparcContext(k, results) ==
    CASE k = 1 -> Ctx(None, Absent, Absent)
      [] k = 2 -> Ctx(None, [kind |-> "map",
                             specification |-> results[1].result], Absent)
      [] k = 3 -> Ctx(None, [kind |-> "map",
                             specification |-> results[1].result,
                             pseudocode |-> results[2].result], Absent)
      [] k = 4 -> Ctx(None, [kind |-> "map",
                             architecture |-> results[3].result], Absent)
      [] k = 5 -> Ctx(None, [kind |-> "map",
                             implementation |-> results[4].result], Absent)
      [] k = 6 -> Ctx(None, [kind |-> "map",
                             implementation |-> results[4].result,
                             tests |-> results[5].result], Absent)

\* whether the variable call k dereferences holds an agent: architect and
\* reviewer are looked up right before their first call, coder before call 2,
\* tester before call 4 although it is used by call 5
SparcReceiverDefined(k, rn, ag) ==
    CASE k \in {1, 2, 6} -> Has(ag, SparcAgents[k])
      [] k \in {3, 4} -> TRUE
      [] k = 5 -> rn.tester

\* variant: in phase 4 the coder and the tester are called together
CoordinateSPARCJoinedRefinement(rn, ag, k) ==
    IF k > Len(SparcKeys)
    THEN Finish(rn)
    ELSE LET cur == IF k = 4 THEN [rn EXCEPT !.tester = Has(ag, "tester")] ELSE rn
             one == Issue(cur, k, ag[SparcAgents[k]], SparcTask(k, cur.opts),
                          SparcContext(k, cur.results))
         IN  IF ~SparcReceiverDefined(k, cur, ag)
             THEN Fail(cur, Err("TypeError", Undefined))
             ELSE IF k = 4 /\ cur.tester /\ one.pc = "running"
                  THEN Issue(one, 5, ag[SparcAgents[5]], SparcTask(5, cur.opts),
                             SparcContext(4, cur.results))
                  ELSE one

\* variant: a phase for which the workflow declares a step sends that step's
\* task
CoordinateSPARCFromSteps(rn, ag, k) ==
    IF k > Len(SparcKeys)
    THEN Finish(rn)
    ELSE LET cur == IF k = 4 THEN [rn EXCEPT !.tester = Has(ag, "tester")] ELSE rn
         IN  IF ~SparcReceiverDefined(k, cur, ag)
             THEN Fail(cur, Err("TypeError", Undefined))
             ELSE Issue(cur, k, ag[SparcAgents[k]],
                        IF k <= Len(cur.def.steps) THEN cur.def.steps[k].task
                        ELSE SparcTask(k, cur.opts),
                        SparcContext(k, cur.results))

\* the code from call k on, up to the next await; a call on an undefined
\* variable throws a TypeError
CoordinateSPARC(rn, ag, k) ==
    IF k > Len(SparcKeys)
    THEN Finish(rn)
    ELSE LET cur == IF k = 4 THEN [rn EXCEPT !.tester = Has(ag, "tester")] ELSE rn
         IN  IF ~SparcReceiverDefined(k, cur, ag)
             THEN Fail(cur, Err("TypeError", Undefined))
             ELSE Issue(cur, k, ag[SparcAgents[k]], SparcTask(k, cur.opts),
                        SparcContext(k, cur.results))

\* results.<key> = await ...
SparcCollect(rn, resp) == [rn EXCEPT !.results = Append(@, resp)]

\* the results object of a SPARC run: key -> Execution Result
SparcResults(rn) ==
    [key \in {SparcKeys[k] : k \in 1..Len(rn.results)} |->
        rn.results[CHOOSE k \in 1..Len(rn.results) : SparcKeys[k] = key]]

------------------------------------------------------------------------------
(* WorkflowEngine.execute *)

\* the envelope execute() returns (timestamp left out): results is what the
\* coordinator returned, an object keyed by phase in SPARC mode and an array
\* in the other modes
Envelope(rn) ==
    [workflow |-> rn.name, mode |-> rn.mode,
     results |-> IF rn.mode = "sparc" THEN SparcResults(rn) ELSE rn.results]

\* the agents some object still refers to
LiveAgents ==
    {agents[n] : n \in DOMAIN agents}
        \cup {reply.before[n] : n \in DOMAIN reply.before}
        \cup (IF reply.op = "spawn" /\ reply.value # Absent
              THEN {reply.value} ELSE {})
        \cup (IF reply.op = "swarm" /\ reply.value # Absent
              THEN {reply.value.agents[i] : i \in 1..Len(reply.value.agents)}
              ELSE {})
        \cup UNION {{swarms[w].agents[i] : i \in 1..Len(swarms[w].agents)} :
                        w \in DOMAIN swarms}

\* variant: the default branch of the switch runs the sequential coordinator
DispatchDefaultSequential(rn, ag) ==
    LET mode == EffectiveMode(rn.opts, rn.def)
        cur == [rn EXCEPT !.mode = mode]
    IN  CASE mode = "sparc" -> CoordinateSPARC(cur, ag, 1)
          [] mode = "parallel" -> CoordinateParallel(cur, ag)
          [] mode = "conditional" -> ExecuteConditional(cur, ag, 1)
          [] mode = "stream" ->
                ExecuteStream([cur EXCEPT !.streamData = InitialStream(cur.opts)], ag, 1)
          [] OTHER -> CoordinateSequential([cur EXCEPT !.mode = "sequential"], ag, 1)

\* the switch on mode
Dispatch(rn, ag) ==
    LET mode == EffectiveMode(rn.opts, rn.def)
        cur == [rn EXCEPT !.mode = mode]
    IN  CASE mode = "sparc" -> CoordinateSPARC(cur, ag, 1)
          [] mode = "parallel" -> CoordinateParallel(cur, ag)
          [] mode = "sequential" -> CoordinateSequential(cur, ag, 1)
          [] mode = "conditional" -> ExecuteConditional(cur, ag, 1)
          [] mode = "stream" ->
                ExecuteStream([cur EXCEPT !.streamData = InitialStream(cur.opts)], ag, 1)
          [] OTHER -> Fail(cur, Err("UnknownMode", mode))

\* the code after an awaited process() came back with resp
Continue(rn, ag, resp) ==
    CASE rn.mode = "sparc" ->
            CoordinateSPARC(SparcCollect(rn, resp), ag, rn.idx + 1)
      [] rn.mode = "sequential" ->
            CoordinateSequential(SequentialCollect(rn, resp), ag, rn.idx + 1)
      [] rn.mode = "conditional" ->
            ExecuteConditional([rn EXCEPT !.results = Append(@, resp)], ag, rn.idx + 1)
      [] rn.mode = "stream" ->
            ExecuteStream(StreamCollect(rn, resp), ag, rn.idx + 1)

\* a slot takes an execute() call when it holds none
Free(rn) == rn.pc = "idle"

\* no execute() call is under way
Quiet == \A r \in RunIds : run[r].pc = "idle"

\* variant: the registry is populated before the workflow is looked up
ExecuteInitializeFirst(r, name, opts) ==
    /\ Free(run[r])
    /\ LET rn == [IdleRun EXCEPT !.name = name, !.opts = opts]
       IN  run' = [run EXCEPT ![r] =
               IF Cardinality(DOMAIN agents) = 0
               THEN IF apiKey
                    THEN [rn EXCEPT !.pc = "init", !.initIdx = 1]
                    ELSE Fail(rn, Err("AgentInitializationFailure", None))
               ELSE IF name \notin DOMAIN workflows
                    THEN Fail(rn, Err("WorkflowNotFound", name))
                    ELSE Dispatch([rn EXCEPT !.def = workflows[name]], agents)]
    /\ reply' = NoReply
    /\ UNCHANGED <<agents, workflows, apiKey, swarms>>

\* variant: every execute() of a catalogued workflow populates the registry
ExecuteInitializeAlways(r, name, opts) ==
    /\ Free(run[r])
    /\ LET rn == [IdleRun EXCEPT !.name = name, !.opts = opts]
       IN  run' = [run EXCEPT ![r] =
               IF name \notin DOMAIN workflows
               THEN Fail(rn, Err("WorkflowNotFound", name))
               ELSE IF apiKey
                    THEN [rn EXCEPT !.def = workflows[name], !.pc = "init",
                                    !.initIdx = 1]
                    ELSE Fail([rn EXCEPT !.def = workflows[name]],
                              Err("AgentInitializationFailure", None))]
    /\ reply' = NoReply
    /\ UNCHANGED <<agents, workflows, apiKey, swarms>>

\* execute(workflowName, options) up to its first await
Execute(r, name, opts) ==
    /\ Free(run[r])
    /\ LET rn == [IdleRun EXCEPT !.name = name, !.opts = opts]
       IN  IF name \notin DOMAIN workflows
           THEN /\ run' = [run EXCEPT ![r] = Fail(rn, Err("WorkflowNotFound", name))]
                /\ UNCHANGED agents
           ELSE LET cur == [rn EXCEPT !.def = workflows[name]]
                IN  IF Cardinality(DOMAIN agents) = 0
                    THEN \* hiveMind.initialize(): new ArchitectAgent(), initialize()
                         /\ run' = [run EXCEPT ![r] =
                                IF InitializeOk(SpecializedAgent(DefaultAgents[1].type,
                                        DefaultAgents[1].config, apiKey, LiveAgents))
                                THEN [cur EXCEPT !.pc = "init", !.initIdx = 1]
                                ELSE Fail(cur, Err("AgentInitializationFailure", None))]
                         /\ UNCHANGED agents
                    ELSE /\ run' = [run EXCEPT ![r] = Dispatch(cur, agents)]
                         /\ UNCHANGED agents
    /\ reply' = NoReply
    /\ UNCHANGED <<workflows, apiKey, swarms>>

\* HiveMind.initialize resumes: the agent whose initialize() was awaited is
\* inserted, the next default agent is constructed and initialized; after the
\* last one execute() goes on to the switch
InitStep(r) ==
    /\ run[r].pc = "init"
    /\ LET rn == run[r]
           i == rn.initIdx
           a == SpecializedAgent(DefaultAgents[i].type, DefaultAgents[i].config, TRUE,
                                 LiveAgents)
           ag == Put(agents, a)
       IN  /\ agents' = ag
           /\ run' = [run EXCEPT ![r] =
                  IF i < Len(DefaultAgents)
                  THEN IF InitializeOk(SpecializedAgent(DefaultAgents[i + 1].type,
                                DefaultAgents[i + 1].config, apiKey,
                                LiveAgents \cup {a}))
                       THEN [rn EXCEPT !.initIdx = i + 1]
                       ELSE Fail(rn, Err("AgentInitializationFailure", None))
                  ELSE Dispatch(rn, ag)]
    /\ UNCHANGED <<workflows, apiKey, swarms, reply, argv>>

\* the language-model call of capability call c comes back (o); process()
\* returns its Execution Result and the coordinator waiting for it goes on
Resolve(r, c, o) ==
    /\ c \in Pending(run[r])
    /\ LET rn == run[r]
           call == rn.calls[c]
           resp == ProcessResult([name |-> call.agent, role |-> call.role,
                                  memory |-> MemorySize(agents, call)], o)
           ag == Remember(agents, call, o)
           cur == [rn EXCEPT !.calls[c].status = "resolved", !.calls[c].resp = resp,
                             !.overtaken = @ \/ (\E d \in Pending(rn) : d < c)]
       IN  /\ run' = [run EXCEPT ![r] =
               IF rn.pc # "running"
               THEN cur
               ELSE IF rn.mode = "parallel"
                    THEN LET got == [cur EXCEPT !.results =
                                        ParallelCollect(@, call.step, resp)]
                         IN  IF Pending(got) = {} THEN Finish(got) ELSE got
                    ELSE Continue(cur, ag, resp)]
           /\ agents' = ag
    /\ UNCHANGED <<workflows, apiKey, swarms, reply, argv>>

\* the caller has the outcome of execute() (envelope or error) and every
\* capability call the run issued is over: the slot is cleared
Return(r) ==
    /\ run[r].pc \in {"done", "failed"}
    /\ Pending(run[r]) = {}
    /\ run' = [run EXCEPT ![r] = IdleRun]
    /\ UNCHANGED <<agents, workflows, apiKey, swarms, reply, argv>>

------------------------------------------------------------------------------
(* Registry, catalog and environment operations of the caller.  The caller   *)
(* makes them between runs: the engine assumes the registry is not mutated   *)
(* while a workflow runs.                                                    *)

\* HiveMind.spawnAgent(type, config): unknown types throw before anything is
\* constructed
SpawnAgent(type, config) ==
    /\ Quiet
    /\ Cardinality(DOMAIN agents) < MaxSpawned
    /\ LET out == SpawnAgentOn(agents, type, config, apiKey, LiveAgents)
       IN  /\ agents' = out.agents
           /\ reply' = [op |-> "spawn", arg |-> [type |-> type, config |-> config],
                        before |-> agents, error |-> out.error, value |-> out.value]
    /\ UNCHANGED <<workflows, apiKey, run, swarms, argv>>

\* HiveMind.createSwarm(name, agentTypes)
CreateSwarm(name, agentTypes) ==
    /\ Quiet
    /\ Cardinality(DOMAIN agents) < MaxSpawned
    /\ LET out == CreateSwarmFrom(agents, name, agentTypes, 1, <<>>, apiKey, LiveAgents)
       IN  /\ agents' = out.agents
           /\ swarms' = IF out.error = NoError
                        THEN [w \in (DOMAIN swarms) \cup {name} |->
                                IF w = name THEN out.value ELSE swarms[w]]
                        ELSE swarms
           /\ reply' = [op |-> "swarm", arg |-> [name |-> name, tags |-> agentTypes],
                        before |-> agents, error |-> out.error, value |-> out.value]
    /\ UNCHANGED <<workflows, apiKey, run, argv>>

\* WorkflowEngine.registerWorkflow(name, definition)
RegisterWorkflow(name, def) ==
    /\ Quiet
    /\ workflows' = RegisterWorkflowMap(workflows, name, def)
    /\ reply' = NoReply
    /\ UNCHANGED <<agents, apiKey, run, swarms, argv>>

\* the credential is set or removed in the process environment
SetApiKey(b) ==
    /\ apiKey # b
    /\ apiKey' = b
    /\ reply' = NoReply
    /\ UNCHANGED <<agents, workflows, run, swarms, argv>>

------------------------------------------------------------------------------
(* Specification: one caller, one execute() call at a time *)

Init ==
    /\ agents = [n \in {} |-> Absent]
    /\ workflows = BuiltInWorkflows
    /\ apiKey = TRUE
    /\ run = <<IdleRun>>
    /\ swarms = [w \in {} |-> Absent]
    /\ reply = NoReply
    /\ argv = NoArgv

\* no registered agent has a history yet.  Histories only grow; the caller
\* of Spec starts workflows on agents without history, and RepeatSpec below
\* runs a workflow again on the histories its first run left.
FreshHistories == \A n \in DOMAIN agents : agents[n].memory = 0

\* the caller calls execute(name, options)
ExecuteCall(r) ==
    /\ Free(run[r])
    /\ FreshHistories
    /\ \E name \in WorkflowNames :
          \E opts \in OptionsFor(workflows, name) : Execute(r, name, opts)
    /\ UNCHANGED argv

\* one of the pending language-model calls of the run comes back
ResolveCall(r) ==
    \E c \in Pending(run[r]), o \in Outcomes : Resolve(r, c, o)

\* the caller spawns an agent under a name the registry does not hold
SpawnCall ==
    /\ Quiet
    /\ \E in \in SpawnInputs :
          /\ ~Has(agents, SpawnName(in))
          /\ SpawnAgent(in.type, in.config)

\* the caller spawns an agent under a name the registry holds already
RespawnCall ==
    /\ Quiet
    /\ \E in \in SpawnInputs :
          /\ Has(agents, SpawnName(in))
          /\ SpawnAgent(in.type, in.config)

RegisterWorkflowCall ==
    /\ Quiet
    /\ \E name \in CustomNames, def \in CustomDefinitions :
          RegisterWorkflow(name, def)

\* the caller calls createSwarm(name, agentTypes)
CreateSwarmCall ==
    /\ Quiet
    /\ \E name \in SwarmNames, tags \in SwarmTagLists : CreateSwarm(name, tags)

\* the caller changes the environment between runs
EnvironmentChange == Quiet /\ \E b \in BOOLEAN : SetApiKey(b)

Next ==
    \/ \E r \in RunIds : ExecuteCall(r)
    \/ \E r \in RunIds : InitStep(r)
    \/ \E r \in RunIds : ResolveCall(r)
    \/ \E r \in RunIds : Return(r)
    \/ SpawnCall
    \/ RegisterWorkflowCall
    \/ EnvironmentChange

Spec == Init /\ [][Next]_vars

(* Specification of the registry alone: the caller spawns agents and forms   *)
(* swarms, no workflow runs                                                  *)
RegistryNext ==
    \/ SpawnCall
    \/ RespawnCall
    \/ CreateSwarmCall
    \/ EnvironmentChange

RegistrySpec == Init /\ [][RegistryNext]_vars

------------------------------------------------------------------------------
(* Properties.  The registry does not change while a run is under way, so a *)
(* property of a run may read `agents` for the registry the run saw.        *)

StrictModes == {"sparc", "parallel", "sequential"}
ListModes == {"parallel", "sequential", "conditional", "stream"}
LoopModes == {"sequential", "conditional", "stream"}

Dispatched(rn) == rn.pc \in {"running", "done", "failed"} /\ rn.mode # None

\* the steps for which a capability call was issued, in the order of the calls
CalledSteps(rn) == [c \in 1..Len(rn.calls) |-> rn.calls[c].step]

CalledStepSet(rn) == {rn.calls[c].step : c \in 1..Len(rn.calls)}

Registered(name) == name \in DOMAIN agents

\* the agent an entry of a parallel task list is to run on
WantedParallelAgent(rn, i) ==
    IF rn.def.steps[i].agent # None THEN rn.def.steps[i].agent
    ELSE IF (i - 1) % 2 = 0 THEN "coder-1" ELSE "coder-2"

\* the agent a step of a sequential task list is to run on
WantedSequentialAgent(rn, i) ==
    IF rn.def.steps[i].agent # None THEN rn.def.steps[i].agent ELSE "coder-1"

\* the step passes the condition filter of conditional mode
WantedByCondition(rn, i) ==
    \/ rn.def.steps[i].condition = None
    \/ rn.def.steps[i].condition =
          (IF rn.opts.condition = None THEN "simple" ELSE rn.opts.condition)

\* C1: coordinateParallel over registered agents returns one Execution Result
\* per task, element i being the result of the call issued for task i,
\* whatever the order in which the concurrent calls resolve.
ParallelResultsInInputOrder ==
    \A r \in RunIds :
        LET rn == run[r]
        IN  (rn.mode = "parallel" /\ rn.pc = "done") =>
                /\ Len(rn.results) = Len(rn.def.steps)
                /\ Len(rn.calls) = Len(rn.def.steps)
                /\ \A i \in 1..Len(rn.def.steps) :
                      /\ rn.calls[i].step = i
                      /\ rn.calls[i].task = rn.def.steps[i].task
                      /\ rn.calls[i].agent = WantedParallelAgent(rn, i)
                      /\ rn.results[i] = rn.calls[i].resp

\* C1 witness: a parallel run has returned two different results although a
\* later call resolved before an earlier one
ParallelOvertakenDone ==
    \E r \in RunIds :
        /\ run[r].mode = "parallel" /\ run[r].pc = "done"
        /\ run[r].overtaken
        /\ Len(run[r].results) >= 2
        /\ run[r].results[1] # run[r].results[2]

SparcFailsFast ==
    \A r \in RunIds :
        LET rn == run[r]
        IN  rn.mode = "sparc" =>
                \A c \in 1..Len(rn.calls) :
                    (rn.calls[c].status = "resolved" /\ ~rn.calls[c].resp.success)
                        => (c = Len(rn.calls) /\ rn.pc = "failed")

\* C5: coordinateParallel is an all-or-nothing join: a result array is
\* returned only when no entry raised an error and no agent reported failure.
ParallelAllOrNothing ==
    \A r \in RunIds :
        LET rn == run[r]
        IN  (rn.mode = "parallel" /\ rn.pc = "done") =>
                /\ \A i \in 1..Len(rn.def.steps) : Registered(WantedParallelAgent(rn, i))
                /\ \A c \in 1..Len(rn.calls) : rn.calls[c].resp.success

\* C5 as amended: coordinateParallel fails, returning no array, exactly when
\* some entry raises an error (its agent is not registered), and then with
\* the error of the first such entry; a failure an agent reports does not
\* fail the join, it is returned in the array at the entry's position.
ParallelJoinFailsOnRaiseOnly ==
    \A r \in RunIds :
        LET rn == run[r]
            missing == {i \in 1..Len(rn.def.steps) :
                            ~Registered(WantedParallelAgent(rn, i))}
        IN  (rn.mode = "parallel" /\ Dispatched(rn)) =>
                /\ rn.pc = "failed" <=> missing # {}
                /\ rn.pc = "failed" =>
                      /\ rn.results = <<>>
                      /\ rn.error = Err("AgentNotFound",
                                        WantedParallelAgent(rn, Min(missing)))
                /\ rn.pc = "done" =>
                      \A c \in 1..Len(rn.calls) :
                          rn.results[rn.calls[c].step] = rn.calls[c].resp

\* C5 witness: the join failed on an unregistered agent while a sibling call
\* had been started
ParallelJoinFailed ==
    \E r \in RunIds :
        /\ run[r].mode = "parallel" /\ run[r].pc = "failed"
        /\ run[r].error.kind = "AgentNotFound"
        /\ run[r].calls # <<>>

\* the steps a list mode runs when no agent lookup throws
WantedSteps(rn) ==
    {i \in 1..Len(rn.def.steps) :
        CASE rn.mode = "conditional" ->
                WantedByCondition(rn, i) /\ Registered(rn.def.steps[i].agent)
          [] rn.mode = "stream" -> Registered(rn.def.steps[i].agent)
          [] OTHER -> TRUE}

\* C6: in sequential, parallel, conditional and stream modes a call that
\* comes back with success = false aborts nothing: the coordinator throws only
\* for an unregistered agent, the steps after the failed one are run as they
\* would be otherwise, and the failed result is returned unchanged at its
\* position.
CapabilityFailureDoesNotAbort ==
    \A r \in RunIds :
        LET rn == run[r]
        IN  (rn.mode \in ListModes /\ Dispatched(rn)) =>
                /\ rn.pc = "failed" =>
                      /\ rn.error.kind = "AgentNotFound"
                      /\ ~Registered(rn.error.what)
                /\ rn.mode \in LoopModes =>
                      /\ \A c \in 1..Len(rn.results) : rn.results[c] = rn.calls[c].resp
                      /\ rn.pc # "failed" =>
                            CalledStepSet(rn) = {i \in WantedSteps(rn) : i <= rn.idx}
                /\ rn.pc = "done" =>
                      /\ CalledStepSet(rn) = WantedSteps(rn)
                      /\ Len(rn.results) = Len(rn.calls)
                      /\ rn.mode = "parallel" =>
                            \A c \in 1..Len(rn.calls) :
                                rn.results[rn.calls[c].step] = rn.calls[c].resp

\* C6 witness: a list-mode run is done, one of its results reports failure and
\* a step after that one was run
FailureFollowedByLaterStep ==
    \E r \in RunIds :
        /\ run[r].mode \in ListModes /\ run[r].pc = "done"
        /\ \E i \in 1..Len(run[r].results) :
              /\ ~run[r].results[i].success
              /\ i < Len(run[r].results)

\* C7: in coordinateSequential a step whose agent is not registered aborts the
\* chain with agent-not-found: the calls of the steps before it were made, no
\* call of that or a later step is made and no result list is returned.
SequentialAbortsOnMissingAgent ==
    \A r \in RunIds :
        LET rn == run[r]
            missing == {i \in 1..Len(rn.def.steps) :
                            ~Registered(WantedSequentialAgent(rn, i))}
        IN  (rn.mode = "sequential" /\ Dispatched(rn)) =>
                /\ missing # {} =>
                      /\ rn.pc # "done"
                      /\ Len(rn.calls) < Min(missing)
                /\ rn.pc = "failed" =>
                      /\ missing # {}
                      /\ rn.error = Err("AgentNotFound",
                                        WantedSequentialAgent(rn, Min(missing)))
                      /\ CalledSteps(rn) = [c \in 1..(Min(missing) - 1) |-> c]
                      /\ Pending(rn) = {}

\* C7 witness: a chain was aborted at its second or a later step
SequentialAbortedMidway ==
    \E r \in RunIds :
        /\ run[r].mode = "sequential" /\ run[r].pc = "failed"
        /\ run[r].error.kind = "AgentNotFound"
        /\ Len(run[r].calls) >= 1

\* C8: in sequential, parallel and SPARC modes a run that fails because an
\* agent it needs is not registered fails with AgentNotFound naming that agent,
\* never with another kind of failure.
StrictModesRaiseAgentNotFound ==
    \A r \in RunIds :
        LET rn == run[r]
        IN  (rn.mode \in StrictModes /\ rn.pc = "failed") =>
                /\ rn.error.kind = "AgentNotFound"
                /\ ~Registered(rn.error.what)

\* C9: conditional mode runs, in step order, exactly the steps that have no
\* condition tag or whose tag equals the condition (default "simple"); for
\* conditional-branch with the default condition that gives exactly 2 results.
ConditionalRunsExactlyWanted ==
    \A r \in RunIds :
        LET rn == run[r]
        IN  (rn.mode = "conditional" /\ Dispatched(rn)) =>
                /\ rn.pc # "failed"
                /\ rn.pc = "done" =>
                      /\ CalledStepSet(rn) =
                            {i \in 1..Len(rn.def.steps) : WantedByCondition(rn, i)}
                      /\ (rn.name = "conditional-branch" /\ rn.opts.condition = None)
                            => Len(rn.results) = 2

\* C9 as amended: conditional mode runs, in step order, exactly the steps
\* that pass the condition filter and whose named agent is registered, and
\* raises no error; for conditional-branch with the default condition and
\* architect and coder-1 registered that gives exactly 2 results (assess and
\* simple), and in no registry 3.
ConditionalRunsWantedRegistered ==
    \A r \in RunIds :
        LET rn == run[r]
        IN  (rn.mode = "conditional" /\ Dispatched(rn)) =>
                /\ rn.pc # "failed"
                /\ \A c \in 1..Len(rn.calls) :
                      /\ c > 1 => rn.calls[c - 1].step < rn.calls[c].step
                      /\ rn.calls[c].agent = rn.def.steps[rn.calls[c].step].agent
                      /\ rn.calls[c].task = rn.def.steps[rn.calls[c].step].task
                /\ rn.pc = "done" =>
                      /\ CalledStepSet(rn) =
                            {i \in 1..Len(rn.def.steps) :
                                /\ WantedByCondition(rn, i)
                                /\ Registered(rn.def.steps[i].agent)}
                      /\ Len(rn.results) = Len(rn.calls)
                      /\ (rn.name = "conditional-branch" /\ rn.opts.condition = None) =>
                            /\ Len(rn.results) # 3
                            /\ {"architect", "coder-1"} \subseteq DOMAIN agents =>
                                  /\ Len(rn.results) = 2
                                  /\ rn.calls[1].task = "assess_requirements"
                                  /\ rn.calls[2].task = "simple_implementation"

\* C9 witness: conditional-branch is done under the default condition with
\* two results
ConditionalBranchDone ==
    \E r \in RunIds :
        /\ run[r].mode = "conditional" /\ run[r].pc = "done"
        /\ run[r].name = "conditional-branch" /\ run[r].opts.condition = None
        /\ Len(run[r].results) = 2

\* C10: in conditional and stream modes a step whose agent is not registered
\* is skipped silently: no error, no call and no result for it, and the steps
\* after it are still processed.
MissingAgentSkippedSilently ==
    \A r \in RunIds :
        LET rn == run[r]
            wanted == {i \in 1..Len(rn.def.steps) :
                          rn.mode = "conditional" => WantedByCondition(rn, i)}
        IN  (rn.mode \in {"conditional", "stream"} /\ Dispatched(rn)) =>
                /\ rn.pc # "failed"
                /\ rn.error = NoError
                /\ \A c \in 1..Len(rn.calls) :
                      Registered(rn.def.steps[rn.calls[c].step].agent)
                /\ CalledStepSet(rn) =
                      {i \in wanted : Registered(rn.def.steps[i].agent)
                                        /\ (rn.pc = "running" => i <= rn.idx)}
                /\ rn.pc = "done" => Len(rn.results) = Len(rn.calls)

\* C10 witness: a run is done that skipped a step for its unregistered agent
\* and ran a step after it
SkippedThenWentOn ==
    \E r \in RunIds :
        /\ run[r].mode \in {"conditional", "stream"} /\ run[r].pc = "done"
        /\ \E i \in 1..Len(run[r].def.steps) :
              /\ run[r].mode = "conditional" => WantedByCondition(run[r], i)
              /\ ~Registered(run[r].def.steps[i].agent)
              /\ \E c \in 1..Len(run[r].calls) : run[r].calls[c].step > i

------------------------------------------------------------------------------
(* Stream chaining, execute's lookup, mode resolution and lazy population *)

\* C11: stream mode is a single chain: every call after the first carries the
\* full result of the call before it under streamData (and nothing under
\* previousResults); the first call carries the streamData the caller
\* supplied, or null when the caller supplied none.
StreamSingleChain ==
    \A r \in RunIds :
        LET rn == run[r]
        IN  rn.mode = "stream" =>
                \A c \in 1..Len(rn.calls) :
                    /\ rn.calls[c].ctx.previousResults = Absent
                    /\ rn.calls[c].ctx.streamData =
                          (IF c > 1 THEN rn.calls[c - 1].resp
                           ELSE IF rn.opts.streamData = Absent THEN Null
                           ELSE rn.opts.streamData)
                    /\ c > 1 => rn.calls[c - 1].resp.kind = "result"

\* an execute() call starts in slot r with this step
Starts(r) == Free(run[r]) /\ ~Free(run'[r])

\* C12: execute with a name the catalog does not hold fails with
\* WorkflowNotFound and has no side effects: no capability call, no agent
\* initialized or registered, catalog unchanged.
UnknownWorkflowHasNoEffect ==
    /\ [][\A r \in RunIds :
            (Starts(r) /\ run'[r].name \notin DOMAIN workflows) =>
                /\ run'[r].pc = "failed"
                /\ run'[r].error = Err("WorkflowNotFound", run'[r].name)
                /\ agents' = agents
                /\ workflows' = workflows
                /\ swarms' = swarms]_vars
    /\ [](\A r \in RunIds :
            run[r].error.kind = "WorkflowNotFound" =>
                /\ run[r].pc = "failed"
                /\ run[r].calls = <<>>
                /\ run[r].initIdx = 0
                /\ run[r].name \notin DOMAIN workflows)

\* C12 witness: execute failed with WorkflowNotFound on an empty registry,
\* which a catalogued workflow would have populated
UnknownWorkflowOnEmptyRegistry ==
    \E r \in RunIds :
        /\ run[r].error.kind = "WorkflowNotFound"
        /\ DOMAIN agents = {}

\* the run is past the lookup and past the lazy population
PastPopulation(rn) ==
    rn.pc \in {"running", "done", "failed"} /\ rn.error.kind # "WorkflowNotFound"

\* the mode the caller asked for: options.mode when given, else the declared one
AskedMode(rn) == IF rn.opts.mode # None THEN rn.opts.mode ELSE rn.def.mode

CallsOfCoordinator(rn, m) ==
    /\ \A c \in 1..Len(rn.calls) :
          LET call == rn.calls[c]
          IN  IF m = "sparc"
              THEN /\ call.task = SparcTask(call.step, rn.opts)
                   /\ call.agent = SparcAgents[call.step]
              ELSE /\ call.task = rn.def.steps[call.step].task
                   /\ (call.ctx.previousResults # Absent) = (m = "sequential")
                   /\ (call.ctx.streamData # Absent) = (m = "stream")
    /\ (m = "parallel" /\ rn.error = NoError) => Len(rn.calls) = Len(rn.def.steps)
    /\ m # "parallel" => Cardinality(Pending(rn)) <= 1

\* what the coordinator of the run returned, read off the calls it made
ReturnedByCoordinator(rn) ==
    IF rn.mode = "sparc"
    THEN [key \in {SparcKeys[k] : k \in 1..Len(rn.calls)} |->
            rn.calls[CHOOSE k \in 1..Len(rn.calls) : SparcKeys[k] = key].resp]
    ELSE [c \in 1..Len(rn.calls) |-> rn.calls[c].resp]

\* C14: the effective mode is options.mode when given and the declared mode
\* otherwise; exactly the coordinator of that mode runs; on success the
\* envelope carries the requested name, the effective mode and the
\* coordinator's return value unchanged.
EffectiveModeDispatchedAndWrapped ==
    \A r \in RunIds :
        LET rn == run[r]
        IN  (PastPopulation(rn) /\ rn.error.kind # "AgentInitializationFailure") =>
                /\ rn.def = workflows[rn.name]
                /\ rn.mode = AskedMode(rn)
                /\ rn.mode \in Modes => CallsOfCoordinator(rn, rn.mode)
                /\ rn.pc = "done" =>
                      /\ rn.mode \in Modes
                      /\ Envelope(rn).workflow = rn.name
                      /\ Envelope(rn).mode = AskedMode(rn)
                      /\ Envelope(rn).results = ReturnedByCoordinator(rn)

\* C14 witness: a run is done whose options.mode overrode the declared mode
\* and whose envelope carries results
OverriddenModeDone ==
    \E r \in RunIds :
        /\ run[r].pc = "done"
        /\ run[r].opts.mode # None
        /\ run[r].opts.mode # run[r].def.mode
        /\ Len(run[r].calls) > 1

\* the six default agents are registered, each of the variant and tier that
\* HiveMind.initialize gives its name
DefaultsRegistered ==
    /\ DOMAIN agents = {"architect", "coder-1", "coder-2", "tester", "analyst",
                        "reviewer"}
    /\ \A n \in DOMAIN agents :
          /\ agents[n].name = n
          /\ agents[n].kind =
                (IF n \in {"coder-1", "coder-2"} THEN "coder" ELSE n)
          /\ agents[n].tier =
                (CASE n = "architect" -> 1 [] n = "reviewer" -> 3 [] OTHER -> 2)

\* which instance the registry holds under which name
Registrations(ag) == [n \in DOMAIN ag |-> ag[n].id]

\* C15: execute of a catalogued workflow populates the registry with the six
\* default agents exactly when the registry holds no agent at that moment;
\* when it holds one or more, execute initializes and registers nothing.
PopulatesExactlyWhenEmpty ==
    /\ [][\A r \in RunIds :
            /\ (Starts(r) /\ run'[r].name \in DOMAIN workflows) =>
                  IF DOMAIN agents = {}
                  THEN \/ run'[r].pc = "init" /\ run'[r].initIdx = 1
                       \/ run'[r].error.kind = "AgentInitializationFailure"
                  ELSE run'[r].pc # "init" /\ run'[r].initIdx = 0
            /\ (~Free(run[r]) /\ Registrations(agents') # Registrations(agents)) =>
                  run[r].pc = "init" /\ run[r].initIdx > 0]_vars
    /\ [](\A r \in RunIds :
            LET rn == run[r]
            IN  /\ rn.pc = "init" =>
                      DOMAIN agents =
                          {SpawnName(DefaultAgents[i]) : i \in 1..(rn.initIdx - 1)}
                /\ (PastPopulation(rn)
                        /\ rn.error.kind # "AgentInitializationFailure") =>
                      IF rn.initIdx > 0 THEN DefaultsRegistered
                                        ELSE DOMAIN agents # {})

\* C15 witness: a run that found the registry empty has populated it and is
\* past its first capability call
PopulatedThenRan ==
    \E r \in RunIds :
        /\ run[r].initIdx > 0
        /\ run[r].pc = "running"
        /\ Cardinality(DOMAIN agents) = 6
        /\ Len(run[r].calls) > 1

------------------------------------------------------------------------------
(* Registry operations: registerAgent, spawnAgent, createSwarm *)

\* the last registry call was spawnAgent with a known type, and the agent it
\* constructed passed initialize()
SpawnReachedInsert ==
    /\ reply.op = "spawn"
    /\ reply.arg.type \in AgentTypes
    /\ reply.error.kind # "AgentInitializationFailure"

\* C16 as stated: registering an agent under a name the registry holds is
\* rejected with DuplicateAgentName and the registry is unchanged, the agent
\* registered before staying bound to the name.
DuplicateNameRejected ==
    (SpawnReachedInsert /\ SpawnName(reply.arg) \in DOMAIN reply.before) =>
        /\ reply.error.kind = "DuplicateAgentName"
        /\ agents = reply.before

\* registry ag with agent a bound to its name and nothing else changed
BoundIn(ag, before, a) ==
    /\ DOMAIN ag = (DOMAIN before) \cup {a.name}
    /\ ag[a.name] = a
    /\ \A n \in (DOMAIN before) \ {a.name} : ag[n] = before[n]

\* C17: registerAgent calls initialize before it inserts: when initialize
\* fails (the credential is missing) the failure reaches the caller and the
\* name->agent map is unchanged; the agent is inserted under its name only
\* when initialize succeeded.
InitializeBeforeInsert ==
    (reply.op = "spawn" /\ reply.arg.type \in AgentTypes) =>
        IF apiKey
        THEN /\ reply.error = NoError
             /\ reply.value.client
             /\ reply.value.name = SpawnName(reply.arg)
             /\ BoundIn(agents, reply.before, reply.value)
        ELSE /\ reply.error =
                    Err("AgentInitializationFailure", SpawnName(reply.arg))
             /\ reply.value = Absent
             /\ agents = reply.before

\* C17 witness: a spawnAgent failed in initialize and left the registry
\* without the name it was to register
InitializeFailedNothingInserted ==
    /\ reply.op = "spawn"
    /\ reply.error.kind = "AgentInitializationFailure"
    /\ DOMAIN agents # {}
    /\ SpawnName(reply.arg) \notin DOMAIN agents

\* C18: spawnAgent with a type tag outside the five fails with
\* UnknownAgentType and constructs, initializes and registers nothing; with a
\* known tag it constructs that variant, registers it and returns it.
SpawnKnownTypesOnly ==
    reply.op = "spawn" =>
        IF reply.arg.type \notin {"architect", "coder", "tester", "analyst", "reviewer"}
        THEN /\ reply.error = Err("UnknownAgentType", reply.arg.type)
             /\ reply.value = Absent
             /\ agents = reply.before
        ELSE reply.error = NoError =>
                /\ reply.value.kind = reply.arg.type
                /\ reply.value.role = RoleOf(reply.arg.type)
                /\ BoundIn(agents, reply.before, reply.value)

\* C18 witness: a spawnAgent with an unknown tag failed on a registry that
\* holds an agent
UnknownTypeRefused ==
    /\ reply.op = "spawn"
    /\ reply.error.kind = "UnknownAgentType"
    /\ DOMAIN agents # {}

\* C19: whatever the config, also one that supplies a tier, spawnAgent
\* returns an agent of the tag's tier: architect 1, coder 2, tester 2,
\* analyst 2, reviewer 3.
SpawnedTierIsFixed ==
    (reply.op = "spawn" /\ reply.error = NoError) =>
        reply.value.tier =
            (CASE reply.arg.type = "architect" -> 1
               [] reply.arg.type = "coder" -> 2
               [] reply.arg.type = "tester" -> 2
               [] reply.arg.type = "analyst" -> 2
               [] reply.arg.type = "reviewer" -> 3)

\* C19 witness: a reviewer spawned with tier 1 in its config came back
SpawnedWithConfigTier ==
    /\ reply.op = "spawn"
    /\ reply.error = NoError
    /\ reply.arg.type = "reviewer"
    /\ reply.arg.config.tier = 1
    /\ reply.value # Absent

\* C20 as stated: after a successful createSwarm(name, typeTags) the swarm
\* lists one agent per tag, their names are pairwise distinct, each is the
\* agent the registry holds under its name, and the registry has grown by
\* the number of tags, also when a tag occurs twice.
SwarmKeepsRegistryUnique ==
    (reply.op = "swarm" /\ reply.error = NoError) =>
        LET members == reply.value.agents
        IN  /\ Len(members) = Len(reply.arg.tags)
            /\ \A i, j \in 1..Len(members) :
                  i # j => members[i].name # members[j].name
            /\ \A i \in 1..Len(members) :
                  /\ Has(agents, members[i].name)
                  /\ agents[members[i].name] = members[i]
            /\ Cardinality(DOMAIN agents) =
                  Cardinality(DOMAIN reply.before) + Len(reply.arg.tags)

------------------------------------------------------------------------------
(* The command line: claude-flow run <workflow> [-m <mode>] *)

\* the workflow names and --mode values a command is started with; None is a
\* command line without the flag
CliWorkflows == (DOMAIN BuiltInWorkflows) \cup {"missing"}

CliFlags == {None} \cup Modes \cup {"turbo"}

\* .option('-m, --mode <mode>', ..., 'sparc'): options.mode is the flag's
\* value, and the option's default value when the flag is not given
CliMode(flag) == IF flag = None THEN "sparc" ELSE flag

\* the action of `run`: new HiveMind(), new WorkflowEngine(hiveMind), then
\* engine.execute(workflow, {mode: options.mode, agents, verbose}); execute
\* reads neither agents nor verbose
CliRun(r, workflow, flag) ==
    /\ argv = NoArgv
    /\ DOMAIN agents = {}
    /\ workflows = BuiltInWorkflows
    /\ Execute(r, workflow, [NoOptions EXCEPT !.mode = CliMode(flag)])
    /\ argv' = [kind |-> "run", workflow |-> workflow, mode |-> flag]

\* the command ends: after the envelope is printed, or by process.exit(1) in
\* the catch branch, which also ends calls still pending; its HiveMind and
\* engine are gone with the process
CliExit(r) ==
    /\ argv # NoArgv
    /\ run[r].pc \in {"done", "failed"}
    /\ run[r].pc = "done" => Pending(run[r]) = {}
    /\ run' = [run EXCEPT ![r] = IdleRun]
    /\ agents' = [n \in {} |-> Absent]
    /\ argv' = NoArgv
    /\ UNCHANGED <<workflows, apiKey, swarms, reply>>

CliRunCall == \E r \in RunIds, w \in CliWorkflows, f \in CliFlags : CliRun(r, w, f)

CliExitCall == \E r \in RunIds : CliExit(r)

CliNext ==
    \/ CliRunCall
    \/ \E r \in RunIds : InitStep(r)
    \/ \E r \in RunIds : ResolveCall(r)
    \/ CliExitCall
    \/ EnvironmentChange

\* one claude-flow run command after the other
CliSpec == Init /\ [][CliNext]_vars

\* C27: a workflow run from the command line without --mode runs under the
\* mode its definition declares: run parallel-dev runs the parallel
\* coordinator, run sequential-test the sequential one.
CliRunsDeclaredMode ==
    \A r \in RunIds :
        (argv # NoArgv /\ argv.mode = None /\ Dispatched(run[r])) =>
            /\ run[r].mode = run[r].def.mode
            /\ CallsOfCoordinator(run[r], run[r].def.mode)

------------------------------------------------------------------------------
(* Overlapping execute() calls: the caller does not await one call before  *)
(* it makes the next, so the stretches of the two calls interleave at      *)
(* their awaits.                                                           *)

\* the workflows the overlapping calls run, with no options
ConcurrentNames == {"sequential-test", "parallel-dev"}

ConcurrentInit ==
    /\ agents = [n \in {} |-> Absent]
    /\ workflows = BuiltInWorkflows
    /\ apiKey = TRUE
    /\ run = <<IdleRun, IdleRun>>
    /\ swarms = [w \in {} |-> Absent]
    /\ reply = NoReply
    /\ argv = NoArgv

\* the caller calls execute(name) whatever the other call is doing
ConcurrentExecuteCall(r) ==
    /\ Free(run[r])
    /\ FreshHistories
    /\ \E name \in ConcurrentNames : Execute(r, name, NoOptions)
    /\ UNCHANGED argv

ConcurrentNext ==
    \/ \E r \in RunIds : ConcurrentExecuteCall(r)
    \/ \E r \in RunIds : InitStep(r)
    \/ \E r \in RunIds : ResolveCall(r)
    \/ \E r \in RunIds : Return(r)
    \/ EnvironmentChange

ConcurrentSpec == ConcurrentInit /\ [][ConcurrentNext]_vars

\* C30: capability calls are the only suspension points: the default
\* population (like registerAgent, spawnAgent and createSwarm) never suspends
\* in the middle of its mutation, so no execute running at the same time is
\* dispatched on a registry that holds only some of the six default agents
\* while a population is in progress.
NoPartialRegistryObserved ==
    \A r \in RunIds, q \in RunIds :
        (run[r].pc = "init" /\ Dispatched(run[q])) => DefaultNames \subseteq DOMAIN agents

------------------------------------------------------------------------------
(* A workflow executed twice: slot 1 is the first execute() call, slot 2   *)
(* the second, made with the same name and options once the first is over. *)
(* The language model is mocked: in the second run it answers each call    *)
(* as it answered the call at the same position of the first run.  The     *)
(* workflows are the built-in ones, under every option.                    *)

\* what the language model answered in a call that came back with resp
OutcomeOf(resp) ==
    [ok |-> resp.success, val |-> IF resp.success THEN resp.result ELSE resp.error]

\* the first execute(name, options), on agents without history
FirstExecute ==
    /\ Quiet
    /\ FreshHistories
    /\ \E name \in WorkflowNames :
          \E opts \in OptionsFor(workflows, name) : Execute(1, name, opts)
    /\ UNCHANGED argv

\* the second execute(name, options): same arguments, after the first call
\* and all its capability calls are over
ExecuteAgain ==
    /\ run[1].pc \in {"done", "failed"}
    /\ Pending(run[1]) = {}
    /\ Execute(2, run[1].name, run[1].opts)
    /\ UNCHANGED argv

\* a pending call of the second run comes back, in any order, with the
\* answer the first run got at that position
ResolveAgain ==
    \E c \in Pending(run[2]) :
        IF c <= Len(run[1].calls)
        THEN Resolve(2, c, OutcomeOf(run[1].calls[c].resp))
        ELSE \E o \in Outcomes : Resolve(2, c, o)

\* the caller has both outcomes
ReturnBoth ==
    /\ \A r \in RunIds : run[r].pc \in {"done", "failed"} /\ Pending(run[r]) = {}
    /\ run' = [r \in RunIds |-> IdleRun]
    /\ UNCHANGED <<agents, workflows, apiKey, swarms, reply, argv>>

RepeatNext ==
    \/ FirstExecute
    \/ \E r \in RunIds : InitStep(r)
    \/ ResolveCall(1)
    \/ ExecuteAgain
    \/ ResolveAgain
    \/ ReturnBoth
    \/ SpawnCall
    \/ EnvironmentChange

RepeatSpec == ConcurrentInit /\ [][RepeatNext]_vars

\* the request of a capability call: receiver, task and context
Request(call) ==
    [step |-> call.step, agent |-> call.agent, role |-> call.role,
     task |-> call.task, ctx |-> call.ctx]

\* C23: a workflow executed twice with the same name and options and the
\* same capability responses gives the same Run Envelope (timestamps apart)
\* or the same failure, in every mode and for every order in which the
\* concurrent calls of a parallel run resolve; the second run makes the
\* calls the first made, whatever histories and registry the first left.
SecondRunSameEnvelope ==
    LET first == run[1]
        second == run[2]
    IN  ~Free(second) =>
            /\ second.name = first.name /\ second.opts = first.opts
            /\ Len(second.calls) <= Len(first.calls)
            /\ \A c \in 1..Len(second.calls) :
                  /\ Request(second.calls[c]) = Request(first.calls[c])
                  /\ second.calls[c].status = "resolved" =>
                        second.calls[c].resp = first.calls[c].resp
            /\ (second.pc \in {"done", "failed"} /\ Pending(second) = {}) =>
                  /\ second.pc = first.pc
                  /\ second.error = first.error
                  /\ second.pc = "done" => Envelope(second) = Envelope(first)

\* C23 witness: both runs of a parallel workflow are done, the calls of the
\* second resolved in another order than those of the first, on agents that
\* kept the history of the first run
SecondRunOnLeftHistory ==
    /\ run[1].pc = "done" /\ run[2].pc = "done"
    /\ run[2].mode = "parallel"
    /\ run[2].overtaken /\ ~run[1].overtaken
    /\ \E n \in DOMAIN agents : agents[n].memory >= 2

------------------------------------------------------------------------------
(* Two catalogued workflows executed in SPARC mode with the same options:  *)
(* slot 1 runs one, slot 2 another once the first is over, the mocked      *)
(* language model answering as it did at the same position of the first.   *)
(* The catalog holds the seven built-in workflows.                         *)

\* the options of a SPARC run: mode 'sparc', with or without a task
SparcOptions == {o \in AllOptions : o.mode = "sparc" /\ Varied(o, "sparc")}

FirstSparcExecute ==
    /\ Quiet
    /\ FreshHistories
    /\ \E name \in DOMAIN workflows, opts \in SparcOptions : Execute(1, name, opts)
    /\ UNCHANGED argv

\* execute(other, options): another catalogued workflow, the same options
ExecuteOther ==
    /\ run[1].pc \in {"done", "failed"}
    /\ Pending(run[1]) = {}
    /\ \E name \in (DOMAIN workflows) \ {run[1].name} :
          Execute(2, name, run[1].opts)
    /\ UNCHANGED argv

SparcPairNext ==
    \/ FirstSparcExecute
    \/ \E r \in RunIds : InitStep(r)
    \/ ResolveCall(1)
    \/ ExecuteOther
    \/ ResolveAgain
    \/ ReturnBoth
    \/ SpawnCall
    \/ EnvironmentChange

SparcPairSpec == ConcurrentInit /\ [][SparcPairNext]_vars

\* the tasks the steps of the run's workflow declare
StepTasks(rn) == {rn.def.steps[i].task : i \in 1..Len(rn.def.steps)}

\* C38: in sparc mode the calls (agent, task, context) and the results map
\* depend on options.task and the capability responses only, never on the
\* workflow's step list: two catalogued workflows executed in sparc mode
\* with the same options make the same calls and return the same results,
\* and no step the workflows declare is executed.
SparcIgnoresStepList ==
    LET first == run[1]
        second == run[2]
    IN  ~Free(second) =>
            /\ second.name # first.name
            /\ second.opts = first.opts
            /\ first.mode \in {"sparc", None} /\ second.mode \in {"sparc", None}
            /\ Len(second.calls) <= Len(first.calls)
            /\ \A c \in 1..Len(second.calls) :
                  Request(second.calls[c]) = Request(first.calls[c])
            /\ \A c \in 1..Len(first.calls) :
                  /\ first.calls[c].task \notin StepTasks(first) \cup StepTasks(second)
                  /\ first.calls[c].agent \in {"architect", "coder-1", "tester", "reviewer"}
            /\ (second.pc \in {"done", "failed"} /\ Pending(second) = {}) =>
                  /\ second.pc = first.pc
                  /\ second.error = first.error
                  /\ second.pc = "done" =>
                        Envelope(second).results = Envelope(first).results

\* C38 witness: fullstack-dev and a workflow with other steps were both run
\* in sparc mode to the end
TwoWorkflowsOneSparcRun ==
    /\ run[1].pc = "done" /\ run[2].pc = "done"
    /\ "fullstack-dev" \in {run[1].name, run[2].name}
    /\ run[1].def.steps # run[2].def.steps
    /\ Len(run[2].calls) = 6

------------------------------------------------------------------------------
(* The staged pipeline *)

SparcPayloadsFor(rn, c) ==
    LET payload(j) == rn.calls[j].resp.result
    IN  CASE c = 1 -> Absent
          [] c = 2 -> [kind |-> "map", specification |-> payload(1)]
          [] c = 3 -> [kind |-> "map", specification |-> payload(1),
                       pseudocode |-> payload(2)]
          [] c = 4 -> [kind |-> "map", architecture |-> payload(3)]
          [] c = 5 -> [kind |-> "map", implementation |-> payload(4)]
          [] c = 6 -> [kind |-> "map", implementation |-> payload(4),
                       tests |-> payload(5)]

RefinementInParallel ==
    \A r \in RunIds :
        LET rn == run[r]
        IN  (rn.mode = "sparc" /\ Len(rn.calls) >= 4 /\ rn.tester) =>
                /\ Len(rn.calls) >= 5
                /\ rn.calls[5].ctx.previousResults =
                      [kind |-> "map", architecture |-> rn.calls[3].resp.result]

------------------------------------------------------------------------------
(* The fan-out *)

\* the calls of a parallel run are those of every entry whose agent the
\* registry holds, one each, whether or not the join failed
ParallelEveryEntryStarted(rn) ==
    /\ CalledStepSet(rn) =
          {i \in 1..Len(rn.def.steps) : Registered(WantedParallelAgent(rn, i))}
    /\ Cardinality(CalledStepSet(rn)) = Len(rn.calls)

\* one step of a parallel run: all its calls appear, pending, in the step
\* that dispatches it; afterwards no call is added or dropped, a call changes
\* only by resolving, and the run is over only when none is pending
ParallelNeverCancels(a, b) ==
    /\ (~Dispatched(a) /\ Dispatched(b) /\ b.mode = "parallel") =>
          \A c \in 1..Len(b.calls) : b.calls[c].status = "pending"
    /\ (Dispatched(a) /\ a.mode = "parallel") =>
          IF Free(b)
          THEN Pending(a) = {}
          ELSE /\ Len(b.calls) = Len(a.calls)
               /\ \A c \in 1..Len(a.calls) :
                     \/ b.calls[c] = a.calls[c]
                     \/ /\ a.calls[c].status = "pending"
                        /\ b.calls[c].status = "resolved"
                        /\ [b.calls[c] EXCEPT !.status = "pending",
                                              !.resp = a.calls[c].resp] = a.calls[c]

\* C24: coordinateParallel starts the capability call of every entry before
\* it awaits any result and never cancels a call: when an entry fails and the
\* operation fails, the sibling entries' calls have been started all the
\* same and run to completion, possibly after the failure was reported.
ParallelStartsAllCancelsNone ==
    /\ [](\A r \in RunIds :
            (run[r].mode = "parallel" /\ Dispatched(run[r])) =>
                ParallelEveryEntryStarted(run[r]))
    /\ [][\A r \in RunIds : ParallelNeverCancels(run[r], run'[r])]_vars

\* C24 witness: a parallel run failed on an entry whose agent is not
\* registered and a sibling's call, started all the same, resolved after that
SiblingResolvedAfterFailure ==
    \E r \in RunIds :
        /\ run[r].mode = "parallel" /\ run[r].pc = "failed"
        /\ run[r].error.kind = "AgentNotFound"
        /\ \E c \in 1..Len(run[r].calls) : run[r].calls[c].status = "resolved"

\* C29: an entry that omits its agent runs in parallel mode on coder-1 when
\* its 0-based position is even and on coder-2 when it is odd; an entry that
\* names an agent runs on the agent it names.
ParallelRoundRobinOverCoders ==
    \A r \in RunIds :
        (run[r].mode = "parallel" /\ Dispatched(run[r])) =>
            \A c \in 1..Len(run[r].calls) :
                LET entry == run[r].def.steps[run[r].calls[c].step]
                    position == run[r].calls[c].step - 1
                IN  run[r].calls[c].agent =
                        IF entry.agent # None THEN entry.agent
                        ELSE IF position % 2 = 0 THEN "coder-1" ELSE "coder-2"

\* C29 witness: a parallel run called coder-2 for an entry without agent at
\* position 1 and the named agent for an entry that names one
SecondEntryOnSecondCoder ==
    \E r \in RunIds :
        /\ run[r].mode = "parallel"
        /\ \E c \in 1..Len(run[r].calls) :
              /\ run[r].calls[c].step = 2
              /\ run[r].def.steps[2].agent = None
              /\ run[r].calls[c].agent = "coder-2"
        /\ \E c \in 1..Len(run[r].calls) :
              /\ run[r].def.steps[run[r].calls[c].step].agent # None
              /\ run[r].calls[c].agent =
                    run[r].def.steps[run[r].calls[c].step].agent

------------------------------------------------------------------------------
(* The documented examples *)

\* C25: the built-in stream-chain workflow, run on a registry holding the
\* default agents, makes three capability calls in the order analyst, coder,
\* reviewer, the reviewer receiving the coder's output, and gives three
\* results.
StreamChainThreeCalls ==
    \A r \in RunIds :
        LET rn == run[r]
        IN  (/\ rn.name = "stream-chain" /\ rn.mode = "stream" /\ rn.pc = "done"
             /\ DOMAIN agents = DefaultNames) =>
                /\ Len(rn.calls) = 3
                /\ [c \in 1..3 |-> rn.calls[c].agent] =
                      <<"analyst", "coder", "reviewer">>
                /\ rn.calls[3].ctx.streamData = rn.calls[2].resp
                /\ Len(Envelope(rn).results) = 3

------------------------------------------------------------------------------
(* Population under overlapping and failing runs *)

\* C31: when two execute calls overlap on an empty registry the default
\* population is performed at most once: the two calls never populate side
\* by side, and no registered agent instance is replaced by a second one.
PopulatedAtMostOnce ==
    /\ [](\A r \in RunIds, q \in RunIds :
            (run[r].initIdx > 0 /\ run[q].initIdx > 0) => r = q)
    /\ [][\A n \in DOMAIN agents :
            n \in DOMAIN agents' /\ agents'[n].id = agents[n].id]_vars

\* the environment changes while an execute() call is suspended at an await
EnvironmentChangeDuringRun == ~Quiet /\ \E b \in BOOLEAN : SetApiKey(b)

\* the caller runs the built-in workflows with no options, one at a time
PlainExecuteCall(r) ==
    /\ Free(run[r])
    /\ FreshHistories
    /\ \E name \in DOMAIN BuiltInWorkflows : Execute(r, name, NoOptions)
    /\ UNCHANGED argv

UnsteadyNext ==
    \/ \E r \in RunIds : PlainExecuteCall(r)
    \/ \E r \in RunIds : InitStep(r)
    \/ \E r \in RunIds : ResolveCall(r)
    \/ \E r \in RunIds : Return(r)
    \/ EnvironmentChange
    \/ EnvironmentChangeDuringRun

\* runs in an environment whose credential comes and goes at any time; the
\* registry is populated by lazy initialization only
UnsteadySpec == Init /\ [][UnsteadyNext]_vars

\* C32: default population is all-or-nothing across runs: whenever execute
\* dispatches a coordinator on a registry that only lazy initialization
\* populated, all six default agents are registered, also after an earlier
\* execute whose population failed partway.
DispatchedOnAllSix ==
    \A r \in RunIds : Dispatched(run[r]) => DefaultNames \subseteq DOMAIN agents

\* C33: an execute call that fails because of an unknown mode leaves the
\* registry unchanged: a call that found the registry empty, and so went into
\* hiveMind.initialize(), leaves it empty (no default population takes place).
UnknownModeLeavesRegistry ==
    \A r \in RunIds :
        (run[r].error.kind = "UnknownMode" /\ run[r].initIdx > 0) =>
            DOMAIN agents = {}

------------------------------------------------------------------------------
(* What running a workflow and reading the registry leave alone *)

\* HiveMind.getAgent: Map.get, undefined for a name the map does not hold
GetAgent(ag, name) == IF Has(ag, name) THEN ag[name] ELSE Undefined

\* HiveMind.getAgents: the registered instances (their order left out)
GetAgents(ag) == {ag[n] : n \in DOMAIN ag}

\* Agent.getStatus
GetStatus(a) ==
    [id |-> a.id, name |-> a.name, role |-> a.role, tier |-> a.tier,
     memorySize |-> a.memory]

\* HiveMind.getSwarmStatus
GetSwarmStatus(ag, sw) ==
    [totalAgents |-> Cardinality(DOMAIN ag),
     activeSwarms |-> Cardinality(DOMAIN sw),
     agents |-> {GetStatus(a) : a \in GetAgents(ag)}]

\* the names getAgent is asked for
QueryNames == {"coder-1", "nobody"}

\* the caller reads the registry: a synchronous call, made at any time
Query(op, name) ==
    /\ reply' = [op |-> op, arg |-> name, before |-> [n \in {} |-> Absent],
                 error |-> NoError,
                 value |-> CASE op = "getAgent" -> GetAgent(agents, name)
                             [] op = "getAgents" -> GetAgents(agents)
                             [] op = "getSwarmStatus" -> GetSwarmStatus(agents, swarms)]
    /\ UNCHANGED <<agents, workflows, apiKey, run, swarms, argv>>

QueryCall ==
    \/ \E name \in QueryNames : Query("getAgent", name)
    \/ \E op \in {"getAgents", "getSwarmStatus"} : Query(op, None)

FrameNext ==
    \/ \E r \in RunIds : PlainExecuteCall(r)
    \/ \E r \in RunIds : InitStep(r)
    \/ \E r \in RunIds : ResolveCall(r)
    \/ \E r \in RunIds : Return(r)
    \/ CreateSwarmCall
    \/ QueryCall
    \/ EnvironmentChange

\* runs of the built-in workflows on a registry that holds swarms, beside a
\* caller who reads the registry
FrameSpec == Init /\ [][FrameNext]_vars

\* C34: running a workflow never changes the catalog or the swarm map and
\* changes the name->agent map only through lazy default population; the
\* coordinators of all five modes, getAgent, getAgents and getSwarmStatus
\* leave the name->agent map, the swarm map and every registered workflow
\* definition unchanged.
RunningLeavesMapsAlone ==
    [][/\ run' # run =>
            /\ workflows' = workflows
            /\ swarms' = swarms
            /\ Registrations(agents') # Registrations(agents) =>
                  \E r \in RunIds : run[r].pc = "init" /\ run'[r] # run[r]
       /\ (reply'.op # reply.op
                /\ reply'.op \in {"getAgent", "getAgents", "getSwarmStatus"}) =>
            /\ Registrations(agents') = Registrations(agents)
            /\ workflows' = workflows
            /\ swarms' = swarms]_vars

\* C34 witness: a run made capability calls and is done on a registry with a
\* stored swarm, and the registry was read
RanBesideSwarm ==
    /\ DOMAIN swarms # {}
    /\ reply.op = "getSwarmStatus"
    /\ \E r \in RunIds : run[r].pc = "done" /\ run[r].calls # <<>>

\* C35: no operation removes or replaces a registered agent or a stored
\* swarm: once getAgent(n) returns agent a it returns the same a ever after,
\* and a swarm stored under a name remains the swarm stored under it.
NothingRemovedOrReplaced ==
    [][/\ \A n \in DOMAIN agents :
            /\ Has(agents', n)
            /\ GetAgent(agents', n).id = GetAgent(agents, n).id
       /\ \A w \in DOMAIN swarms :
            /\ w \in DOMAIN swarms'
            /\ swarms'[w] = swarms[w]]_vars

------------------------------------------------------------------------------
(* Deferred validation and the errors a run can end with *)

\* the agent step i of the run is to be looked up under, in the run's mode
StepAgent(rn, i) ==
    CASE rn.mode = "parallel" -> WantedParallelAgent(rn, i)
      [] rn.mode = "sequential" -> WantedSequentialAgent(rn, i)
      [] OTHER -> rn.def.steps[i].agent

\* the steps of the run whose agent the registry does not hold
MissingSteps(rn) ==
    {i \in 1..Len(rn.def.steps) : ~Registered(StepAgent(rn, i))}

\* the run was dispatched in one of the five modes and is over
Over(rn) == Dispatched(rn) /\ rn.mode \in Modes /\ rn.pc \in {"done", "failed"}

\* registerWorkflow binds the name to the definition given, touches no other
\* entry and reports no error
RegisterBindsAsGiven ==
    workflows' # workflows =>
        /\ reply'.error = NoError
        /\ \E name \in CustomNames :
              /\ workflows'[name] \in CustomDefinitions
              /\ \A n \in DOMAIN workflows \ {name} : workflows'[n] = workflows[n]

\* C36 as stated: registerWorkflow never fails and binds the name whatever
\* the steps are, and executing a registered workflow one of whose steps
\* names an unregistered agent fails at run time, in the coordinator of the
\* effective mode.
MissingAgentAlwaysFails ==
    /\ [][RegisterBindsAsGiven]_vars
    /\ [](\A r \in RunIds :
            (Over(run[r]) /\ MissingSteps(run[r]) # {}) => run[r].pc = "failed")

\* C36 amended: registerWorkflow never fails and binds the name whatever the
\* steps are; a step that names an unregistered agent makes the run fail
\* with AgentNotFound in sequential and parallel mode only.  Conditional and
\* stream mode skip the step without an error, and SPARC mode does not look
\* at the steps at all (it fails only when one of its own four agents is
\* missing).
MissingAgentFailsWhereLookedUp ==
    /\ [][RegisterBindsAsGiven]_vars
    /\ [](\A r \in RunIds :
            LET rn == run[r]
            IN  (Over(rn) /\ MissingSteps(rn) # {}) =>
                    CASE rn.mode \in {"sequential", "parallel"} ->
                            /\ rn.pc = "failed"
                            /\ rn.error = Err("AgentNotFound",
                                              StepAgent(rn, Min(MissingSteps(rn))))
                      [] rn.mode \in {"conditional", "stream"} ->
                            /\ rn.pc = "done"
                            /\ rn.error = NoError
                            /\ CalledStepSet(rn) \cap MissingSteps(rn) = {}
                      [] rn.mode = "sparc" ->
                            /\ rn.error.kind \in {"none", "TypeError"}
                            /\ CallsOfCoordinator(rn, "sparc"))

\* C36 witness: a caller-registered workflow with a step whose agent is not
\* registered was run in sequential mode and failed on it
CustomRunFailedOnMissingAgent ==
    \E r \in RunIds :
        /\ run[r].name = "custom" /\ run[r].mode = "sequential"
        /\ run[r].error.kind = "AgentNotFound"
        /\ run[r].calls # <<>>

\* C37: a coordinator raises an error only for structural problems (unknown
\* agent, unknown mode): every agent the registry holds has completed
\* initialize, so every capability call made on a registered agent comes
\* back with an Execution Result, success true or false, and never raises.
CoordinatorsRaiseOnlyStructural ==
    /\ \A n \in DOMAIN agents : agents[n].client
    /\ \A r \in RunIds :
          LET rn == run[r]
          IN  /\ Dispatched(rn) =>
                    rn.error.kind \in {"none", "UnknownMode", "AgentNotFound", "TypeError"}
              /\ rn.error.kind \in {"AgentNotFound", "TypeError"} =>
                    \E n \in DefaultNames \cup {StepAgent(rn, i) : i \in 1..Len(rn.def.steps)} :
                        ~Registered(n)
              /\ \A c \in 1..Len(rn.calls) :
                    rn.calls[c].status = "resolved" =>
                        /\ rn.calls[c].resp.kind = "result"
                        /\ rn.calls[c].resp.success \in BOOLEAN
                        /\ rn.calls[c].resp.agent = rn.calls[c].agent

\* C37 witness: a run is done, without error, although one of its capability
\* calls failed at the language model
FailedCallDidNotRaise ==
    \E r \in RunIds :
        /\ run[r].pc = "done" /\ run[r].error = NoError
        /\ \E c \in 1..Len(run[r].calls) :
              /\ run[r].calls[c].status = "resolved"
              /\ ~run[r].calls[c].resp.success

------------------------------------------------------------------------------
(* Termination.  execute() and the coordinators hold no timer and no retry:  *)
(* a suspended call goes on exactly when the initialize() or process() it    *)
(* awaits settles.  The fair specification assumes that every awaited        *)
(* initialize() and every pending language-model call comes back.            *)

FairNext ==
    \/ ExecuteCall(1)
    \/ InitStep(1)
    \/ ResolveCall(1)
    \/ Return(1)
    \/ RegisterWorkflowCall
    \/ EnvironmentChange

FairSpec ==
    /\ Init
    /\ [][FairNext]_vars
    /\ WF_vars(InitStep(1))
    /\ WF_vars(ResolveCall(1))

\* the call is suspended at an await
Suspended(rn) == rn.pc \in {"init", "running"}

\* the call has returned its envelope or thrown its error
Completed(rn) == rn.pc \in {"done", "failed"}

\* C39: when every awaited initialize() and every capability call comes
\* back, every execute() call completes, with an envelope or with an error,
\* whatever its mode; a call whose coordinator is under way is suspended only
\* while one of its capability calls is pending, and each step of it is the
\* settling of the call it awaits.
ExecuteCompletes ==
    /\ Suspended(run[1]) ~> Completed(run[1])
    /\ [](run[1].pc = "running" => Pending(run[1]) # {})
    /\ [][Suspended(run[1]) =>
              \/ run[1].pc = "init" /\ agents' # agents
              \/ \E c \in Pending(run[1]) : c \notin Pending(run'[1])]_vars

\* a sequential run has returned its envelope after more than one
\* capability call
RunOfSeveralCallsCompleted ==
    /\ run[1].pc = "done"
    /\ run[1].mode = "sequential"
    /\ Len(run[1].calls) > 1
    /\ Pending(run[1]) = {}

------------------------------------------------------------------------------
(* Interaction histories.  Agent.process pushes one entry onto this.memory   *)
(* for every language-model call that answers; nothing in Agent or HiveMind  *)
(* reads the length of the history before pushing or trims it afterwards.    *)

\* the history length the caller keeps starting runs at
MaxHistory == 2

HistoryNames == {"sequential-test", "parallel-dev"}

\* the caller runs a workflow again on the histories earlier runs left
HistoryExecuteCall(r) ==
    /\ Free(run[r])
    /\ \A n \in DOMAIN agents : agents[n].memory <= MaxHistory
    /\ \E name \in HistoryNames : Execute(r, name, NoOptions)
    /\ UNCHANGED argv

HistoryNext ==
    \/ \E r \in RunIds : HistoryExecuteCall(r)
    \/ \E r \in RunIds : InitStep(r)
    \/ \E r \in RunIds : ResolveCall(r)
    \/ \E r \in RunIds : Return(r)

HistorySpec == Init /\ [][HistoryNext]_vars

\* C40: the interaction history of an agent is a bounded append-only log:
\* no step shortens it, a capability call that comes back adds at most one
\* entry to it, and its length never exceeds the bound however many calls
\* the agent serves.
HistoryBoundedAppendOnly ==
    /\ [](\A n \in DOMAIN agents : agents[n].memory <= MaxHistory)
    /\ [][\A n \in DOMAIN agents :
              /\ n \in DOMAIN agents'
              /\ agents'[n].memory >= agents[n].memory
              /\ agents'[n].memory <= agents[n].memory + 1]_vars

====
